---- MODULE Spec2Model ----
(***************************************************************************)
(* Model of the Rust auto clicker (src/src/main.rs): the click loop        *)
(* thread, the hotkey listener threads and the iced UI thread, which       *)
(* share the atomic clicking flag, the atomic delay, the mutex-protected   *)
(* selected hotkey and the mutex-protected listener handle.                *)
(*                                                                         *)
(* Granularity: every step performs at most one access to shared state     *)
(* (one atomic load or store, one mutex acquisition, one release); the     *)
(* thread-local code that follows an access is folded into its step.       *)
(*                                                                         *)
(* Next is the whole program.  Its state space is the product of the       *)
(* click loop, the UI and every listener, so the properties are checked    *)
(* under two parts of it: ClickerSpec (no HotkeyChanged, hence the startup *)
(* listener only) and HotkeySpec (no click loop and no slider, which       *)
(* neither take a mutex nor store the flag or the hotkey).                 *)
(* ObservedHotkeySpec is HotkeySpec with two history variables recorded,   *)
(* SpawnObservedHotkeySpec is HotkeySpec with the hotkey stored at each     *)
(* spawn recorded, and SessionSpec joins the two parts: the click loop and  *)
(* the slider are at work until the hotkey is first changed.                *)
(***************************************************************************)
EXTENDS Integers, Sequences, FiniteSets, Bags, TLC

(* ------------------------------ bounds --------------------------------- *)

\* Number of Hotkey variants modelled, counted from the default F6.
NumKeys == 2

\* Number of listener threads ever spawned (the startup one included).
MaxListeners == 3

(* ------------------------- program constants --------------------------- *)

DEFAULT_DELAY_MS == 800

\* Hotkey::F6 as the index of the variant in Hotkey::ALL.
DEFAULT_HOTKEY == 6

\* Hotkey::ALL restricted to NumKeys variants starting at the default.
Hotkey_ALL == DEFAULT_HOTKEY .. (DEFAULT_HOTKEY + NumKeys - 1)

\* rdev::Key values of the function keys, by position.
RdevFKeys == <<"F1", "F2", "F3", "F4", "F5", "F6", "F7", "F8", "F9", "F10">>

\* Hotkey::to_rdev_key
to_rdev_key(h) == RdevFKeys[h]

\* Keys the operating system may report: the modelled function keys and a
\* key that is no Hotkey variant.
OsKeys == {to_rdev_key(h) : h \in Hotkey_ALL} \cup {"KeyA"}

\* rdev::EventType values the listen callback can be handed.
EventTypes == {"KeyPress", "KeyRelease"}

\* Values a Message::SliderChanged(u32) may carry: the u32 is stored as it
\* is, so values below, inside and above the slider range are drawn.
SliderInputs == {5, 500, 2000}

\* The range of the slider widget, slider(10..=1000, ...).
SLIDER_MIN == 10
SLIDER_MAX == 1000

NoMessage == [type |-> "none", arg |-> 0]

NoPress == [key |-> "none", before |-> FALSE]

(* ------------------------------- state --------------------------------- *)

VARIABLES
    clicking_flag,     \* Arc<AtomicBool>: the running flag
    delay_ms,          \* Arc<AtomicUsize>: the click interval
    selected_hotkey,   \* Arc<Mutex<Hotkey>>: the value inside the mutex
    hotkey_lock,       \* holder of the selected_hotkey mutex
    listener_handle,   \* Arc<Mutex<Option<JoinHandle>>>: 0 is None
    handle_lock,       \* holder of the listener_handle mutex
    listeners,         \* the listener threads: a bag of thread states
    clicker_pc,        \* position of the click loop thread
    sleep_time,        \* the click loop's local sleep_time
    ui_pc,             \* position of the main / UI thread
    message,           \* the Message the UI thread is handling
    slider_value,      \* AutoClickerApp::slider_value
    start_enabled,     \* the rendered Start button has on_press
    stop_enabled,      \* the rendered Stop button has on_press
    last_log,          \* the last "Clicker STARTED."/"Clicker STOPPED." line
    log_tick,          \* flips at each such line
    clicks_after_stop, \* clicks emitted since the flag last became false
    written_since_click, \* a delay store happened since the last click
    prev_hotkey,       \* hotkey replaced by the second or later HotkeyChanged
    press,             \* the last recorded hotkey press
    warmed_up,         \* the warm-up sleep was taken since the flag last
                       \* went from false to true
    hotkey_changes     \* number of HotkeyChanged messages update was handed

vars == <<clicking_flag, delay_ms, selected_hotkey, hotkey_lock,
          listener_handle, handle_lock, listeners, clicker_pc, sleep_time,
          ui_pc, message, slider_value, start_enabled, stop_enabled,
          last_log, log_tick, clicks_after_stop, written_since_click,
          prev_hotkey, press, warmed_up, hotkey_changes>>

shared == <<clicking_flag, delay_ms, selected_hotkey>>

locks == <<hotkey_lock, handle_lock>>

ui_local == <<ui_pc, message, slider_value, start_enabled, stop_enabled>>

clicker_local == <<clicker_pc, sleep_time>>

logs == <<last_log, log_tick>>

\* The listener threads are anonymous closures over the same shared values,
\* so a thread is told by its state alone: its position and the Hotkey it
\* copied out of the mutex (0 before the copy).
Listeners == BagToSet(listeners)

\* Number of listener threads spawned so far.
NumListeners == BagCardinality(listeners)

\* A listener thread as spawned by thread::spawn: nothing read yet.  The
\* field spawned is a history field, the Hotkey that was stored when the
\* thread was spawned; 0 where it is not recorded.
NewListener == [pc |-> "start", hotkey |-> 0, spawned |-> 0]

\* One listener thread moves from state l to state m.
Step(l, m) == (listeners (-) SetToBag({l})) (+) SetToBag({m})

\* State after main has created the shared values and called
\* spawn_clicker_loop; the main thread is about to call
\* start_hotkey_listener.
Init ==
    /\ clicking_flag = FALSE
    /\ delay_ms = DEFAULT_DELAY_MS
    /\ selected_hotkey = DEFAULT_HOTKEY
    /\ hotkey_lock = "free"
    /\ listener_handle = 0
    /\ handle_lock = "free"
    /\ listeners = EmptyBag
    /\ clicker_pc = "outer_check"
    /\ sleep_time = 0
    /\ ui_pc = "spawn"
    /\ message = NoMessage
    /\ slider_value = DEFAULT_DELAY_MS
    /\ start_enabled = FALSE
    /\ stop_enabled = FALSE
    /\ last_log = "none"
    /\ log_tick = 0
    /\ clicks_after_stop = 0
    /\ written_since_click = FALSE
    /\ prev_hotkey = 0
    /\ press = NoPress
    /\ warmed_up = FALSE
    /\ hotkey_changes = 0

(* ------------------ the flag's stores and their log lines --------------- *)

\* flag.store(true); println!("Clicker STARTED.")
StoreStarted ==
    /\ clicking_flag' = TRUE
    /\ last_log' = "STARTED"
    /\ log_tick' = 1 - log_tick
    /\ clicks_after_stop' = 0
    /\ warmed_up' = (clicking_flag /\ warmed_up)

\* flag.store(false); println!("Clicker STOPPED.")
StoreStopped ==
    /\ clicking_flag' = FALSE
    /\ last_log' = "STOPPED"
    /\ log_tick' = 1 - log_tick
    /\ clicks_after_stop' = IF clicking_flag THEN 0 ELSE clicks_after_stop
    /\ UNCHANGED warmed_up

NoFlagStore ==
    UNCHANGED <<clicking_flag, last_log, log_tick, clicks_after_stop,
                warmed_up>>

(* --------------------------- the click loop ---------------------------- *)

\* Variant of ClickerOuterCheck with the test of the flag inverted.
ClickerOuterCheck_inverted ==
    /\ clicker_pc = "outer_check"
    /\ clicker_pc' = IF clicking_flag THEN "poll" ELSE "warmup"
    /\ UNCHANGED <<shared, locks, listener_handle, listeners, sleep_time,
                   ui_local, logs, clicks_after_stop, warmed_up,
                   written_since_click, prev_hotkey, hotkey_changes, press>>

\* if flag.load(Relaxed) { println!; ... } else fall through to the poll sleep
ClickerOuterCheck ==
    /\ clicker_pc = "outer_check"
    /\ clicker_pc' = IF clicking_flag THEN "warmup" ELSE "poll"
    /\ UNCHANGED <<shared, locks, listener_handle, listeners, sleep_time,
                   ui_local, logs, clicks_after_stop, warmed_up,
                   written_since_click, prev_hotkey, hotkey_changes, press>>

\* std::thread::sleep(Duration::from_millis(1000))
ClickerWarmup ==
    /\ clicker_pc = "warmup"
    /\ clicker_pc' = "inner_check"
    /\ warmed_up' = TRUE
    /\ UNCHANGED <<shared, locks, listener_handle, listeners, sleep_time,
                   ui_local, logs, clicks_after_stop, written_since_click,
                   prev_hotkey, hotkey_changes, press>>

\* Variant of ClickerInnerCheck that enters the loop body whatever the load
\* returns.
ClickerInnerCheck_unconditional ==
    /\ clicker_pc = "inner_check"
    /\ clicker_pc' = "click"
    /\ UNCHANGED <<shared, locks, listener_handle, listeners, sleep_time,
                   ui_local, logs, clicks_after_stop, warmed_up,
                   written_since_click, prev_hotkey, hotkey_changes, press>>

\* while flag.load(Relaxed) { ... } println!("CLICKER THREAD STOPPED.")
ClickerInnerCheck ==
    /\ clicker_pc = "inner_check"
    /\ clicker_pc' = IF clicking_flag THEN "click" ELSE "poll"
    /\ UNCHANGED <<shared, locks, listener_handle, listeners, sleep_time,
                   ui_local, logs, clicks_after_stop, warmed_up,
                   written_since_click, prev_hotkey, hotkey_changes, press>>

\* Variant of ClickerClick that clears the flag after the click.
ClickerClick_one_shot ==
    /\ clicker_pc = "click"
    /\ clicker_pc' = "read_delay"
    /\ clicking_flag' = FALSE
    /\ clicks_after_stop' =
          IF clicking_flag THEN clicks_after_stop
          ELSE IF clicks_after_stop < 2 THEN clicks_after_stop + 1 ELSE 2
    /\ written_since_click' = FALSE
    /\ UNCHANGED <<delay_ms, selected_hotkey, locks, listener_handle,
                   listeners, sleep_time, ui_local, logs, prev_hotkey,
                   hotkey_changes, press, warmed_up>>

\* enigo.mouse_click(MouseButton::Left) and the elapsed-time bookkeeping
ClickerClick ==
    /\ clicker_pc = "click"
    /\ clicker_pc' = "read_delay"
    /\ clicks_after_stop' =
          IF clicking_flag THEN clicks_after_stop
          ELSE IF clicks_after_stop < 2 THEN clicks_after_stop + 1 ELSE 2
    /\ written_since_click' = FALSE
    /\ UNCHANGED <<shared, locks, listener_handle, listeners, sleep_time,
                   ui_local, logs, prev_hotkey, hotkey_changes, press,
                   warmed_up>>

\* Variant of ClickerReadDelay that sleeps the default delay instead of
\* loading the shared one.
ClickerReadDelay_default ==
    /\ clicker_pc = "read_delay"
    /\ sleep_time' = DEFAULT_DELAY_MS
    /\ clicker_pc' = "sleep"
    /\ UNCHANGED <<shared, locks, listener_handle, listeners, ui_local, logs,
                   clicks_after_stop, warmed_up, written_since_click,
                   prev_hotkey, hotkey_changes, press>>

\* let sleep_time = delay.load(Relaxed)
ClickerReadDelay ==
    /\ clicker_pc = "read_delay"
    /\ sleep_time' = delay_ms
    /\ clicker_pc' = "sleep"
    /\ UNCHANGED <<shared, locks, listener_handle, listeners, ui_local, logs,
                   clicks_after_stop, warmed_up, written_since_click,
                   prev_hotkey, hotkey_changes, press>>

\* Variant of ClickerSleep that tests the flag only once per activation: the
\* body is repeated without the load of the while condition.
ClickerSleep_no_recheck ==
    /\ clicker_pc = "sleep"
    /\ clicker_pc' = "click"
    /\ sleep_time' = 0
    /\ written_since_click' = FALSE
    /\ UNCHANGED <<shared, locks, listener_handle, listeners, ui_local, logs,
                   clicks_after_stop, warmed_up, prev_hotkey, hotkey_changes,
                   press>>

\* std::thread::sleep(Duration::from_millis(sleep_time as u64)); the local
\* goes out of scope at the end of the iteration
ClickerSleep ==
    /\ clicker_pc = "sleep"
    /\ clicker_pc' = "inner_check"
    /\ sleep_time' = 0
    /\ written_since_click' = FALSE
    /\ UNCHANGED <<shared, locks, listener_handle, listeners, ui_local, logs,
                   clicks_after_stop, warmed_up, prev_hotkey, hotkey_changes,
                   press>>

\* std::thread::sleep(Duration::from_millis(50)) at the end of the outer loop
ClickerPoll ==
    /\ clicker_pc = "poll"
    /\ clicker_pc' = "outer_check"
    /\ UNCHANGED <<shared, locks, listener_handle, listeners, sleep_time,
                   ui_local, logs, clicks_after_stop, warmed_up,
                   written_since_click, prev_hotkey, hotkey_changes, press>>

\* spawn_clicker_loop's thread
ClickerNext ==
    \/ ClickerOuterCheck
    \/ ClickerWarmup
    \/ ClickerInnerCheck
    \/ ClickerClick
    \/ ClickerReadDelay
    \/ ClickerSleep
    \/ ClickerPoll

(* --------------------------- the UI thread ----------------------------- *)

\* Variant of Subscribed in which a listener whose listen call failed is
\* subscribed again.
Subscribed_retrying(l) == l.pc \in {"listening", "terminated"}

\* The listener threads blocked in listen whose callback is not running.
Subscribed(l) == l.pc = "listening"

\* let handle = thread::spawn(move || { ... }) in start_hotkey_listener
UISpawn ==
    /\ ui_pc = "spawn"
    /\ listeners' = listeners (+) SetToBag({NewListener})
    /\ ui_pc' = "handle_lock"
    /\ UNCHANGED <<shared, locks, listener_handle, clicker_local, message,
                   slider_value, start_enabled, stop_enabled, logs,
                   clicks_after_stop, warmed_up, written_since_click,
                   prev_hotkey, hotkey_changes, press>>

\* thread::spawn in start_hotkey_listener, with the Hotkey stored at this
\* moment recorded in the new thread's history field.
ObservedUISpawn ==
    /\ ui_pc = "spawn"
    /\ listeners' = listeners (+)
                       SetToBag({[NewListener EXCEPT !.spawned = selected_hotkey]})
    /\ ui_pc' = "handle_lock"
    /\ UNCHANGED <<shared, locks, listener_handle, clicker_local, message,
                   slider_value, start_enabled, stop_enabled, logs,
                   clicks_after_stop, warmed_up, written_since_click,
                   prev_hotkey, hotkey_changes, press>>

\* let mut lock = listener_handle_arc.lock().unwrap()
UIHandleLock ==
    /\ ui_pc = "handle_lock"
    /\ handle_lock = "free"
    /\ handle_lock' = "ui"
    /\ ui_pc' = "handle_store"
    /\ UNCHANGED <<shared, hotkey_lock, listener_handle, listeners,
                   clicker_local, message, slider_value, start_enabled,
                   stop_enabled, logs, clicks_after_stop, warmed_up,
                   written_since_click, prev_hotkey, hotkey_changes, press>>

\* Variant of UIHandleStore that joins the old handle instead of dropping
\* it: the step waits until a listener thread has ended.
UIHandleStore_joining ==
    /\ ui_pc = "handle_store"
    /\ handle_lock = "ui"
    /\ listener_handle # 0 => \E l \in Listeners : l.pc = "terminated"
    /\ listener_handle' = NumListeners
    /\ handle_lock' = "free"
    /\ ui_pc' = "view_start"
    /\ UNCHANGED <<shared, hotkey_lock, listeners, clicker_local, message,
                   slider_value, start_enabled, stop_enabled, logs,
                   clicks_after_stop, warmed_up, written_since_click,
                   prev_hotkey, hotkey_changes, press>>

\* lock.take(), drop(old_handle), *lock = Some(handle), and the guard's drop
\* at the end of start_hotkey_listener; update returns and iced calls view
UIHandleStore ==
    /\ ui_pc = "handle_store"
    /\ handle_lock = "ui"
    /\ listener_handle' = NumListeners
    /\ handle_lock' = "free"
    /\ ui_pc' = "view_start"
    /\ UNCHANGED <<shared, hotkey_lock, listeners, clicker_local, message,
                   slider_value, start_enabled, stop_enabled, logs,
                   clicks_after_stop, warmed_up, written_since_click,
                   prev_hotkey, hotkey_changes, press>>

\* update has returned and dropped its message; view: the label's load has
\* no effect; the Start button gets on_press when its own load of
\* is_clicking returns false
UIViewStart ==
    /\ ui_pc = "view_start"
    /\ start_enabled' = ~clicking_flag
    /\ message' = NoMessage
    /\ ui_pc' = "view_stop"
    /\ UNCHANGED <<shared, locks, listener_handle, listeners, clicker_local,
                   slider_value, stop_enabled, logs, clicks_after_stop,
                   warmed_up, written_since_click, prev_hotkey,
                   hotkey_changes, press>>

\* view: the Stop button gets on_press when its own load returns true
UIViewStop ==
    /\ ui_pc = "view_stop"
    /\ stop_enabled' = clicking_flag
    /\ ui_pc' = "view_lock"
    /\ UNCHANGED <<shared, locks, listener_handle, listeners, clicker_local,
                   message, slider_value, start_enabled, logs,
                   clicks_after_stop, warmed_up, written_since_click,
                   prev_hotkey, hotkey_changes, press>>

\* view: self.selected_hotkey.lock().unwrap()
UIViewLock ==
    /\ ui_pc = "view_lock"
    /\ hotkey_lock = "free"
    /\ hotkey_lock' = "ui"
    /\ ui_pc' = "view_read"
    /\ UNCHANGED <<shared, handle_lock, listener_handle, listeners,
                   clicker_local, message, slider_value, start_enabled,
                   stop_enabled, logs, clicks_after_stop, warmed_up,
                   written_since_click, prev_hotkey, hotkey_changes, press>>

\* view: the copy out of the guard and the drop of the temporary guard; the
\* rest of view builds widgets and the UI waits for the next event
UIViewRead ==
    /\ ui_pc = "view_read"
    /\ hotkey_lock = "ui"
    /\ hotkey_lock' = "free"
    /\ ui_pc' = "idle"
    /\ UNCHANGED <<shared, handle_lock, listener_handle, listeners,
                   clicker_local, message, slider_value, start_enabled,
                   stop_enabled, logs, clicks_after_stop, warmed_up,
                   written_since_click, prev_hotkey, hotkey_changes, press>>

\* iced rebuilds the view on a window event that produces no message
UIRedraw ==
    /\ ui_pc = "idle"
    /\ ui_pc' = "view_start"
    /\ UNCHANGED <<shared, locks, listener_handle, listeners, clicker_local,
                   message, slider_value, start_enabled, stop_enabled, logs,
                   clicks_after_stop, warmed_up, written_since_click,
                   prev_hotkey, hotkey_changes, press>>

\* Variant of UIStartClicker that goes on to the store whatever the load
\* returns.
UIStartClicker_unguarded ==
    /\ ui_pc = "idle"
    /\ start_enabled
    /\ message' = [type |-> "StartClicker", arg |-> IF clicking_flag THEN 1 ELSE 0]
    /\ ui_pc' = "start_store"
    /\ press' = NoPress
    /\ UNCHANGED <<shared, locks, listener_handle, listeners, clicker_local,
                   slider_value, start_enabled, stop_enabled, logs,
                   clicks_after_stop, warmed_up, written_since_click,
                   prev_hotkey, hotkey_changes>>

\* update, Message::StartClicker: the load of the if; arg keeps what it
\* returned
UIStartClicker ==
    /\ ui_pc = "idle"
    /\ start_enabled
    /\ message' = [type |-> "StartClicker", arg |-> IF clicking_flag THEN 1 ELSE 0]
    /\ ui_pc' = IF ~clicking_flag THEN "start_store" ELSE "view_start"
    /\ press' = NoPress
    /\ UNCHANGED <<shared, locks, listener_handle, listeners, clicker_local,
                   slider_value, start_enabled, stop_enabled, logs,
                   clicks_after_stop, warmed_up, written_since_click,
                   prev_hotkey, hotkey_changes>>

\* update, Message::StartClicker: the store and the log line
UIStartStore ==
    /\ ui_pc = "start_store"
    /\ StoreStarted
    /\ ui_pc' = "view_start"
    /\ UNCHANGED <<delay_ms, selected_hotkey, locks, listener_handle,
                   listeners, clicker_local, message, slider_value,
                   start_enabled, stop_enabled, written_since_click,
                   prev_hotkey, hotkey_changes, press>>

\* update, Message::StopClicker: the load of the if
UIStopClicker ==
    /\ ui_pc = "idle"
    /\ stop_enabled
    /\ message' = [type |-> "StopClicker", arg |-> IF clicking_flag THEN 1 ELSE 0]
    /\ ui_pc' = IF clicking_flag THEN "stop_store" ELSE "view_start"
    /\ press' = NoPress
    /\ UNCHANGED <<shared, locks, listener_handle, listeners, clicker_local,
                   slider_value, start_enabled, stop_enabled, logs,
                   clicks_after_stop, warmed_up, written_since_click,
                   prev_hotkey, hotkey_changes>>

\* update, Message::StopClicker: the store and the log line
UIStopStore ==
    /\ ui_pc = "stop_store"
    /\ StoreStopped
    /\ ui_pc' = "view_start"
    /\ UNCHANGED <<delay_ms, selected_hotkey, locks, listener_handle,
                   listeners, clicker_local, message, slider_value,
                   start_enabled, stop_enabled, written_since_click,
                   prev_hotkey, hotkey_changes, press>>

\* Variant of UISliderChanged that stores the delay clamped to the slider's
\* range and the slider value as received.
UISliderChanged_clamped(value) ==
    /\ ui_pc = "idle"
    /\ message' = [type |-> "SliderChanged", arg |-> value]
    /\ slider_value' = value
    /\ delay_ms' = IF value < SLIDER_MIN THEN SLIDER_MIN
                   ELSE IF value > SLIDER_MAX THEN SLIDER_MAX ELSE value
    /\ written_since_click' = (clicker_pc \in {"read_delay", "sleep"})
    /\ ui_pc' = "view_start"
    /\ press' = NoPress
    /\ UNCHANGED <<clicking_flag, selected_hotkey, locks, listener_handle,
                   listeners, clicker_local, start_enabled, stop_enabled,
                   logs, clicks_after_stop, warmed_up, prev_hotkey,
                   hotkey_changes>>

\* update, Message::SliderChanged(value): value as usize keeps the number
UISliderChanged(value) ==
    /\ ui_pc = "idle"
    /\ message' = [type |-> "SliderChanged", arg |-> value]
    /\ slider_value' = value
    /\ delay_ms' = value
    /\ written_since_click' = (clicker_pc \in {"read_delay", "sleep"})
    /\ ui_pc' = "view_start"
    /\ press' = NoPress
    /\ UNCHANGED <<clicking_flag, selected_hotkey, locks, listener_handle,
                   listeners, clicker_local, start_enabled, stop_enabled,
                   logs, clicks_after_stop, warmed_up, prev_hotkey,
                   hotkey_changes>>

\* update receives Message::HotkeyChanged(hotkey) and reaches the lock call
UIHotkeyChanged(hotkey) ==
    /\ ui_pc = "idle"
    /\ NumListeners < MaxListeners
    /\ message' = [type |-> "HotkeyChanged", arg |-> hotkey]
    /\ ui_pc' = "hotkey_lock"
    /\ press' = NoPress
    /\ hotkey_changes' = hotkey_changes + 1
    /\ UNCHANGED <<shared, locks, listener_handle, listeners, clicker_local,
                   slider_value, start_enabled, stop_enabled, logs,
                   clicks_after_stop, warmed_up, written_since_click,
                   prev_hotkey>>

\* let mut lock = self.selected_hotkey.lock().unwrap()
UIHotkeyLock ==
    /\ ui_pc = "hotkey_lock"
    /\ hotkey_lock = "free"
    /\ hotkey_lock' = "ui"
    /\ ui_pc' = "hotkey_write"
    /\ UNCHANGED <<shared, handle_lock, listener_handle, listeners,
                   clicker_local, message, slider_value, start_enabled,
                   stop_enabled, logs, clicks_after_stop, warmed_up,
                   written_since_click, prev_hotkey, hotkey_changes, press>>

\* Variant of UIHotkeyStore without the inner block: the guard lives on
\* into the call of start_hotkey_listener.
UIHotkeyStore_guard_kept ==
    /\ ui_pc = "hotkey_write"
    /\ hotkey_lock = "ui"
    /\ selected_hotkey' = message.arg
    /\ hotkey_lock' = "ui"
    /\ ui_pc' = "spawn"
    /\ UNCHANGED <<clicking_flag, delay_ms, handle_lock, listener_handle,
                   listeners, clicker_local, message, slider_value,
                   start_enabled, stop_enabled, logs, clicks_after_stop,
                   warmed_up, written_since_click, press, hotkey_changes>>

\* Variant of UIHotkeyStore that returns from update without calling
\* start_hotkey_listener when the hotkey written is the one already stored.
UIHotkeyStore_skip_same ==
    /\ ui_pc = "hotkey_write"
    /\ hotkey_lock = "ui"
    /\ selected_hotkey' = message.arg
    /\ hotkey_lock' = "free"
    /\ ui_pc' = IF message.arg = selected_hotkey THEN "view_start" ELSE "spawn"
    /\ UNCHANGED <<clicking_flag, delay_ms, handle_lock, listener_handle,
                   listeners, clicker_local, message, slider_value,
                   start_enabled, stop_enabled, logs, clicks_after_stop,
                   warmed_up, written_since_click, press, hotkey_changes>>

\* *lock = hotkey, and the end of the block that drops the guard
UIHotkeyStore ==
    /\ ui_pc = "hotkey_write"
    /\ hotkey_lock = "ui"
    /\ selected_hotkey' = message.arg
    /\ hotkey_lock' = "free"
    /\ ui_pc' = "spawn"
    /\ UNCHANGED <<clicking_flag, delay_ms, handle_lock, listener_handle,
                   listeners, clicker_local, message, slider_value,
                   start_enabled, stop_enabled, logs, clicks_after_stop,
                   warmed_up, written_since_click, press, hotkey_changes>>

\* The write of the hotkey, not recorded.
UIHotkeyWrite ==
    /\ UIHotkeyStore
    /\ UNCHANGED prev_hotkey

\* The write of the hotkey; from the second HotkeyChanged on (the startup
\* listener and that of the first HotkeyChanged exist) the hotkey it
\* replaces is recorded in prev_hotkey.
ObservedUIHotkeyWrite ==
    /\ UIHotkeyStore
    /\ prev_hotkey' = IF NumListeners >= 2 THEN selected_hotkey ELSE 0

\* start_hotkey_listener after the spawn, and AutoClickerApp::view
UIRenderNext ==
    \/ UIHandleLock
    \/ UIHandleStore
    \/ UIViewStart
    \/ UIViewStop
    \/ UIViewLock
    \/ UIViewRead
    \/ UIRedraw

\* main's call of start_hotkey_listener, and AutoClickerApp::view
UIViewNext ==
    \/ UISpawn
    \/ UIRenderNext

\* AutoClickerApp::update, Message::StartClicker and Message::StopClicker
UIStartStopNext ==
    \/ UIStartClicker
    \/ UIStartStore
    \/ UIStopClicker
    \/ UIStopStore

\* AutoClickerApp::update, Message::SliderChanged
UISliderNext == \E value \in SliderInputs : UISliderChanged(value)

\* AutoClickerApp::update, Message::HotkeyChanged
UIHotkeyNext ==
    \/ \E hotkey \in Hotkey_ALL : UIHotkeyChanged(hotkey)
    \/ UIHotkeyLock
    \/ UIHotkeyWrite

\* AutoClickerApp::update, Message::HotkeyChanged, replaced hotkeys recorded
ObservedUIHotkeyNext ==
    \/ \E hotkey \in Hotkey_ALL : UIHotkeyChanged(hotkey)
    \/ UIHotkeyLock
    \/ ObservedUIHotkeyWrite

(* ------------------------ the listener threads ------------------------- *)

\* Positions inside the listen callback (toggle_clicker and its callees).
CallbackPcs == {"toggle", "start_check", "stop_check", "start_store", "stop_store"}

InCallback(l) == l.pc \in CallbackPcs

\* Variant of Matches without the test of the event type: releases of the
\* hotkey match as well.
Matches_any_event(l, type, key) == key = to_rdev_key(l.hotkey)

\* The callback's filter: if let EventType::KeyPress(key) = event.event_type
\* { if key == hotkey.to_rdev_key() { ... } }
Matches(l, type, key) == type = "KeyPress" /\ key = to_rdev_key(l.hotkey)

\* The listener is blocked in listen and its callback takes the event up.
Receives(l, type, key) == Subscribed(l) /\ Matches(l, type, key)

\* let hotkey = *selected_hotkey.lock().unwrap(): the acquisition
ListenerLock(l) ==
    /\ l.pc = "start"
    /\ hotkey_lock = "free"
    /\ hotkey_lock' = "listener"
    /\ listeners' = Step(l, [l EXCEPT !.pc = "locked"])
    /\ UNCHANGED <<shared, handle_lock, listener_handle, clicker_local,
                   ui_local, logs, clicks_after_stop, warmed_up,
                   written_since_click, prev_hotkey, hotkey_changes, press>>

\* Variant of ListenerRead in which the guard is bound to a local of the
\* closure and so lives on into the call of listen.
ListenerRead_guard_kept(l) ==
    /\ l.pc = "locked"
    /\ hotkey_lock = "listener"
    /\ hotkey_lock' = "listener"
    /\ listeners' = Step(l, [l EXCEPT !.pc = "listening",
                                      !.hotkey = selected_hotkey])
    /\ UNCHANGED <<shared, handle_lock, listener_handle, clicker_local,
                   ui_local, logs, clicks_after_stop, warmed_up,
                   written_since_click, prev_hotkey, hotkey_changes, press>>

\* the copy of the Hotkey, the drop of the temporary guard at the end of the
\* let statement, and the call of listen
ListenerRead(l) ==
    /\ l.pc = "locked"
    /\ hotkey_lock = "listener"
    /\ hotkey_lock' = "free"
    /\ listeners' = Step(l, [l EXCEPT !.pc = "listening",
                                      !.hotkey = selected_hotkey])
    /\ UNCHANGED <<shared, handle_lock, listener_handle, clicker_local,
                   ui_local, logs, clicks_after_stop, warmed_up,
                   written_since_click, prev_hotkey, hotkey_changes, press>>

\* listen returns Err(e): the error is printed and the thread's closure ends
ListenError(l) ==
    /\ Subscribed(l)
    /\ listeners' = Step(l, [l EXCEPT !.pc = "terminated"])
    /\ UNCHANGED <<shared, locks, listener_handle, clicker_local, ui_local,
                   logs, clicks_after_stop, warmed_up, written_since_click,
                   prev_hotkey, hotkey_changes, press>>

\* toggle_clicker: let current = flag.load(Relaxed), and the branch
ListenerToggle(l) ==
    /\ l.pc = "toggle"
    /\ listeners' = Step(l, [l EXCEPT !.pc = IF clicking_flag
                                             THEN "stop_check"
                                             ELSE "start_check"])
    /\ UNCHANGED <<shared, locks, listener_handle, clicker_local, ui_local,
                   logs, clicks_after_stop, warmed_up, written_since_click,
                   prev_hotkey, hotkey_changes, press>>

\* start_clicker: if !flag.load(Relaxed)
ListenerStartCheck(l) ==
    /\ l.pc = "start_check"
    /\ listeners' = Step(l, [l EXCEPT !.pc = IF ~clicking_flag
                                             THEN "start_store"
                                             ELSE "listening"])
    /\ UNCHANGED <<shared, locks, listener_handle, clicker_local, ui_local,
                   logs, clicks_after_stop, warmed_up, written_since_click,
                   prev_hotkey, hotkey_changes, press>>

\* start_clicker: flag.store(true, Relaxed); println!("Clicker STARTED.")
ListenerStartStore(l) ==
    /\ l.pc = "start_store"
    /\ StoreStarted
    /\ listeners' = Step(l, [l EXCEPT !.pc = "listening"])
    /\ UNCHANGED <<delay_ms, selected_hotkey, locks, listener_handle,
                   clicker_local, ui_local, written_since_click, prev_hotkey,
                   hotkey_changes, press>>

\* stop_clicker: if flag.load(Relaxed)
ListenerStopCheck(l) ==
    /\ l.pc = "stop_check"
    /\ listeners' = Step(l, [l EXCEPT !.pc = IF clicking_flag
                                             THEN "stop_store"
                                             ELSE "listening"])
    /\ UNCHANGED <<shared, locks, listener_handle, clicker_local, ui_local,
                   logs, clicks_after_stop, warmed_up, written_since_click,
                   prev_hotkey, hotkey_changes, press>>

\* stop_clicker: flag.store(false, Relaxed); println!("Clicker STOPPED.")
ListenerStopStore(l) ==
    /\ l.pc = "stop_store"
    /\ StoreStopped
    /\ listeners' = Step(l, [l EXCEPT !.pc = "listening"])
    /\ UNCHANGED <<delay_ms, selected_hotkey, locks, listener_handle,
                   clicker_local, ui_local, written_since_click, prev_hotkey,
                   hotkey_changes, press>>

\* the closure handed to thread::spawn in start_hotkey_listener, for every
\* listener thread
ListenerNext ==
    \/ \E l \in Listeners : ListenerLock(l)
    \/ \E l \in Listeners : ListenerRead(l)
    \/ \E l \in Listeners : ListenError(l)
    \/ \E l \in Listeners : ListenerToggle(l)
    \/ \E l \in Listeners : ListenerStartCheck(l)
    \/ \E l \in Listeners : ListenerStartStore(l)
    \/ \E l \in Listeners : ListenerStopCheck(l)
    \/ \E l \in Listeners : ListenerStopStore(l)

(* ------------------------- the operating system ------------------------ *)

\* No listener is inside its callback.
Quiescent == \A l \in Listeners : ~InCallback(l)

\* The UI thread is not inside update.
UIAtRest == ui_pc \in {"idle", "view_start", "view_stop", "view_lock", "view_read"}

\* What the event makes of a listener in state l.
Deliver(l, type, key) ==
    IF Receives(l, type, key) THEN [l EXCEPT !.pc = "toggle"] ELSE l

\* The operating system reports one keyboard event: every subscribed
\* listener's callback is invoked with it.  Events are taken to be told
\* apart in time: the next one is reported when the callbacks of the last
\* one have returned.
Delivery(type, key) ==
    /\ Quiescent
    /\ listeners' = BagOfAll(LAMBDA l : Deliver(l, type, key), listeners)
    /\ UNCHANGED <<shared, locks, listener_handle, clicker_local, ui_local,
                   logs, clicks_after_stop, warmed_up, written_since_click,
                   prev_hotkey, hotkey_changes>>

\* A keyboard event, not recorded.
KeyEvent(type, key) ==
    /\ Delivery(type, key)
    /\ UNCHANGED press

\* A keyboard event; a press that some callback takes up while the UI is at
\* rest is recorded in press together with the flag's value before it.
ObservedKeyEvent(type, key) ==
    /\ Delivery(type, key)
    /\ press' = IF \E l \in Listeners : Receives(l, type, key)
                THEN IF UIAtRest
                     THEN [key |-> key, before |-> clicking_flag]
                     ELSE NoPress
                ELSE press

\* Keyboard events of every type and key.
KeyboardNext == \E type \in EventTypes, key \in OsKeys : KeyEvent(type, key)

\* Keyboard events of every type and key, presses recorded.
ObservedKeyboardNext ==
    \E type \in EventTypes, key \in OsKeys : ObservedKeyEvent(type, key)

(* ---------------------------- specification ---------------------------- *)

Next ==
    \/ ClickerNext
    \/ UIViewNext
    \/ UIStartStopNext
    \/ UISliderNext
    \/ UIHotkeyNext
    \/ ListenerNext
    \/ KeyboardNext

Spec == Init /\ [][Next]_vars

\* The program while the hotkey is left at its default: the click loop, the
\* startup listener and the UI's Start, Stop and slider.
ClickerSystemNext ==
    \/ ClickerNext
    \/ UIViewNext
    \/ UIStartStopNext
    \/ UISliderNext
    \/ ListenerNext
    \/ KeyboardNext

ClickerSpec == Init /\ [][ClickerSystemNext]_vars

\* The program seen from the flag, the hotkey and the listeners: the click
\* loop only reads shared state and the slider only writes the delay.
HotkeySystemNext ==
    \/ UIViewNext
    \/ UIStartStopNext
    \/ UIHotkeyNext
    \/ ListenerNext
    \/ KeyboardNext

HotkeySpec == Init /\ [][HotkeySystemNext]_vars

\* HotkeySpec with the hotkey presses and the replaced hotkeys recorded.
ObservedHotkeySystemNext ==
    \/ UIViewNext
    \/ UIStartStopNext
    \/ ObservedUIHotkeyNext
    \/ ListenerNext
    \/ ObservedKeyboardNext

ObservedHotkeySpec == Init /\ [][ObservedHotkeySystemNext]_vars

\* HotkeySpec with the Hotkey stored at each spawn recorded in the thread.
SpawnObservedHotkeySystemNext ==
    \/ ObservedUISpawn
    \/ UIRenderNext
    \/ UIStartStopNext
    \/ UIHotkeyNext
    \/ ListenerNext
    \/ KeyboardNext

SpawnObservedHotkeySpec == Init /\ [][SpawnObservedHotkeySystemNext]_vars

\* No HotkeyChanged has been handled or taken up yet.
HotkeyAtDefault == NumListeners <= 1 /\ message.type # "HotkeyChanged"

\* The click loop stands at its outer check between two polls and the delay
\* is the one the program starts with.
ClickerAtRest ==
    /\ clicker_pc = "outer_check"
    /\ sleep_time = 0
    /\ ~written_since_click
    /\ delay_ms = DEFAULT_DELAY_MS
    /\ slider_value = DEFAULT_DELAY_MS

\* The whole program in the sessions in which the click loop and the slider
\* are at work before the hotkey is first changed, and the hotkey is changed
\* with the click loop at rest: every action of Next takes part.
SessionNext ==
    \/ HotkeyAtDefault /\ ClickerNext
    \/ HotkeyAtDefault /\ UISliderNext
    \/ ClickerAtRest /\ UIHotkeyNext
    \/ UIViewNext
    \/ UIStartStopNext
    \/ ListenerNext
    \/ KeyboardNext

SessionSpec == Init /\ [][SessionNext]_vars

TypeOK ==
    /\ clicking_flag \in BOOLEAN
    /\ delay_ms \in SliderInputs \cup {DEFAULT_DELAY_MS}
    /\ selected_hotkey \in Hotkey_ALL
    /\ hotkey_lock \in {"free", "ui", "listener"}
    /\ handle_lock \in {"free", "ui"}
    /\ IsABag(listeners)
    /\ NumListeners <= MaxListeners
    /\ listener_handle \in 0 .. NumListeners

\* The UI thread goes on inside start_hotkey_listener and update whenever it
\* can, and a listener thread that holds the selected_hotkey mutex goes on to
\* its release: the scheduler gives every runnable thread its steps.
HotkeyFairSpec ==
    /\ HotkeySpec
    /\ WF_vars(UIViewNext \/ UIHotkeyLock \/ UIHotkeyWrite)
    /\ WF_vars(\E l \in Listeners : ListenerRead(l))

\* The click loop runs on a thread of its own that waits for nothing but its
\* sleeps, so the scheduler gives it its steps.
ClickerFairSpec == ClickerSpec /\ WF_vars(ClickerNext)

(* ------------------------------- claims -------------------------------- *)

\* C1: once HotkeyChanged(K1) and then HotkeyChanged(K2), K1 # K2, have been
\* handled, a press of K1 delivered with the UI at rest leaves the flag as it
\* was when every callback has returned.
C1_ReplacedKeyInert ==
    (/\ press.key # "none"
     /\ prev_hotkey # 0
     /\ prev_hotkey # selected_hotkey
     /\ press.key = to_rdev_key(prev_hotkey)
     /\ Quiescent)
    => clicking_flag = press.before

\* C2: the stored delay is always within the slider's range [10, 1000].
C2_IntervalBound == delay_ms \in SLIDER_MIN .. SLIDER_MAX

\* C3: the click loop gets to its click only by the step in which its own
\* load of the flag in the while condition returned true, and while the
\* flag has never been stored true the loop is in none of the positions at
\* or after a click.
C3_ClicksOnlyWhileRunning ==
    /\ [][(clicker_pc' = "click" /\ clicker_pc # "click")
            => (clicker_pc = "inner_check" /\ clicking_flag)]_vars
    /\ [](last_log = "none" => clicker_pc \notin {"click", "read_delay", "sleep"})

C3_Witness == clicker_pc = "read_delay" /\ clicking_flag

\* C4: while the flag is false at most one click has been emitted since it
\* became false, and if the flag stays false the click loop ends up in its
\* idle polling for good.
C4_StopLatency ==
    /\ [](~clicking_flag => clicks_after_stop <= 1)
    /\ (<>[](~clicking_flag) => <>[](clicker_pc \in {"outer_check", "poll"}))

C4_Witness ==
    ~clicking_flag /\ clicks_after_stop = 1 /\ clicker_pc = "poll"

\* C5: if the flag stays true the click loop clicks again and again; and a
\* step of the loop taken while the flag is true never enters the poll sleep
\* and enters the warm-up sleep only from the outer check, so at most one of
\* each lies before the first click.
C5_StartReactivity ==
    /\ (<>[]clicking_flag => []<><<ClickerClick>>_vars)
    /\ [][(clicking_flag /\ clicker_pc' # clicker_pc)
            => /\ clicker_pc' # "poll"
               /\ (clicker_pc' = "warmup" => clicker_pc = "outer_check")]_vars

C5_Witness ==
    clicking_flag /\ clicker_pc = "sleep" /\ last_log = "STARTED"

\* C6: a press of the configured hotkey delivered with the UI at rest has
\* flipped the flag when every callback has returned.
C6_ToggleSymmetry ==
    (/\ press.key # "none"
     /\ press.key = to_rdev_key(selected_hotkey)
     /\ Quiescent)
    => clicking_flag # press.before

\* C7: Start handled while the flag is true leaves the flag true, goes on to
\* no store and prints no line; Stop handled while the flag is false
\* likewise; and the store of Start leaves the flag true and that of Stop
\* leaves it false, so a second Start or Stop finds nothing to do.
C7_StartStopIdempotent ==
    [][/\ (ui_pc = "idle" /\ message'.type = "StartClicker" /\ clicking_flag)
          => (clicking_flag' /\ log_tick' = log_tick /\ ui_pc' = "view_start")
       /\ (ui_pc = "idle" /\ message'.type = "StopClicker" /\ ~clicking_flag)
          => (~clicking_flag' /\ log_tick' = log_tick /\ ui_pc' = "view_start")
       /\ (ui_pc = "start_store" /\ ui_pc' # ui_pc) => clicking_flag'
       /\ (ui_pc = "stop_store" /\ ui_pc' # ui_pc) => ~clicking_flag']_vars

C7_Witness ==
    /\ ui_pc = "view_start"
    /\ message = [type |-> "StartClicker", arg |-> 1]
    /\ clicking_flag

\* C8: no thread is at the acquisition of one mutex while it holds the
\* other, and whenever a mutex is held its holder stands at the step that
\* releases it and that step is enabled.
C8_DeadlockFree ==
    /\ ui_pc \in {"hotkey_lock", "view_lock"} =>
          (handle_lock # "ui" /\ hotkey_lock # "ui")
    /\ ui_pc = "handle_lock" => (hotkey_lock # "ui" /\ handle_lock # "ui")
    /\ hotkey_lock = "ui" =>
          (ui_pc \in {"hotkey_write", "view_read"}
             /\ ENABLED (UIHotkeyStore \/ UIViewRead))
    /\ hotkey_lock = "listener" =>
          \E l \in Listeners : l.pc = "locked" /\ ENABLED ListenerRead(l)
    /\ handle_lock = "ui" => (ui_pc = "handle_store" /\ ENABLED UIHandleStore)

C8_Witness == ui_pc = "hotkey_lock" /\ hotkey_lock = "listener"

\* A listener thread whose listen call returned an error.
Terminated(l) == l.pc = "terminated"

\* C9: a listener whose listen call failed stays terminated and takes no
\* further step; the step in which it fails changes nothing but that
\* listener; and with a failed listener around the stores of Start and Stop
\* still set the flag to true and false.
C9_ListenerFailureIsolated ==
    [][/\ \A l \in Listeners :
             Terminated(l) => CopiesIn(l, listeners') >= CopiesIn(l, listeners)
       /\ (\E l \in BagToSet(listeners') :
             Terminated(l) /\ CopiesIn(l, listeners') > CopiesIn(l, listeners))
          => /\ UNCHANGED <<shared, locks, listener_handle, ui_local, logs>>
             /\ BagCardinality(listeners') = NumListeners
       /\ ((\E l \in Listeners : Terminated(l)) /\ ui_pc' # ui_pc)
          => /\ ui_pc = "start_store" => clicking_flag'
             /\ ui_pc = "stop_store" => ~clicking_flag']_vars

C9_Witness ==
    /\ \E l \in Listeners : Terminated(l)
    /\ ui_pc = "view_start"
    /\ message = [type |-> "StartClicker", arg |-> 0]
    /\ clicking_flag

\* C10: when the click loop sleeps and no delay has been stored since its
\* last click, the time it sleeps is the stored delay.
C10_IntervalReread ==
    (clicker_pc = "sleep" /\ ~written_since_click) => sleep_time = delay_ms

C10_Witness ==
    /\ clicker_pc = "sleep"
    /\ ~written_since_click
    /\ sleep_time # DEFAULT_DELAY_MS

\* C11: every listener that has copied the hotkey out of the mutex is bound
\* to the Hotkey that was stored when it was spawned.
C11_HotkeyCapturedAtSpawn ==
    \A l \in Listeners : l.hotkey # 0 => l.hotkey = l.spawned

\* C12: the UI thread does not hold the selected_hotkey mutex where it spawns
\* a listener or registers its handle, it holds it only at the write of
\* HotkeyChanged and the read of view; a listener holds it only between its
\* acquisition and its copy of the hotkey, never inside listen or its
\* callback.
C12_LockScope ==
    /\ ui_pc \in {"spawn", "handle_lock", "handle_store"} => hotkey_lock # "ui"
    /\ hotkey_lock = "ui" => ui_pc \in {"hotkey_write", "view_read"}
    /\ hotkey_lock = "listener" <=> \E l \in Listeners : l.pc = "locked"
    /\ \A l \in Listeners : l.pc = "locked" => CopiesIn(l, listeners) = 1

C12_Witness ==
    /\ ui_pc = "spawn"
    /\ message.type = "HotkeyChanged"
    /\ hotkey_lock = "listener"
    /\ \E l \in Listeners : Subscribed(l)

\* C13: the "Clicker STARTED." and "Clicker STOPPED." lines alternate,
\* beginning with STARTED: every step that prints one prints the other one
\* than the last printed, the first being STARTED, and changes the flag.
C13_LogsAlternate ==
    [][log_tick' # log_tick
         => /\ last_log' # last_log
            /\ last_log = "none" => last_log' = "STARTED"
            /\ clicking_flag' # clicking_flag]_vars

\* C14: outside the registry update of start_hotkey_listener the registry
\* holds the handle of the listener spawned last (inside it, still that of
\* the one before), and with the UI at rest it holds one; the registry
\* update is never blocked and leaves every listener thread as it is; and a
\* HotkeyChanged that update has begun to handle is handled to its end.
C14_RegistryHoldsNewest ==
    /\ [](listener_handle = IF ui_pc \in {"handle_lock", "handle_store"}
                             THEN NumListeners - 1
                             ELSE NumListeners)
    /\ [](UIAtRest => listener_handle >= 1)
    /\ [](ui_pc = "handle_lock" => ENABLED UIHandleLock)
    /\ [](ui_pc = "handle_store" => ENABLED UIHandleStore)
    /\ [][listener_handle' # listener_handle => listeners' = listeners]_vars
    /\ (ui_pc = "hotkey_lock" ~> ui_pc = "view_start")

C14_Witness ==
    /\ ui_pc = "view_start"
    /\ message.type = "HotkeyChanged"
    /\ listener_handle = 2
    /\ NumListeners = 2
    /\ \A l \in Listeners : Subscribed(l)

\* C15: a step of the click loop leaves the flag, the delay and the hotkey
\* as they are; a step that changes a listener thread leaves the delay and
\* the hotkey as they are; the delay changes only in update's handling of
\* SliderChanged and the hotkey only at the write of HotkeyChanged; and the
\* UI's steps for Start, Stop and SliderChanged leave the hotkey and the
\* listener threads as they are.
C15_WritersOfSharedState ==
    [][/\ clicker_pc' # clicker_pc => UNCHANGED shared
       /\ listeners' # listeners => UNCHANGED <<delay_ms, selected_hotkey>>
       /\ delay_ms' # delay_ms
          => (ui_pc = "idle" /\ message'.type = "SliderChanged"
                /\ delay_ms' = message'.arg)
       /\ selected_hotkey' # selected_hotkey
          => (ui_pc = "hotkey_write" /\ message.type = "HotkeyChanged"
                /\ selected_hotkey' = message.arg)
       /\ (ui_pc' # ui_pc /\ message'.type \in {"StartClicker", "StopClicker",
                                                  "SliderChanged"})
          => (selected_hotkey' = selected_hotkey /\ listeners' = listeners)]_vars

C15_Witness ==
    /\ selected_hotkey # DEFAULT_HOTKEY
    /\ clicks_after_stop = 1
    /\ last_log = "STOPPED"
    /\ \E l \in Listeners : l.pc = "start_store" /\ l.hotkey = selected_hotkey

\* A listener blocked in listen is bound to the key.
BoundTo(key) ==
    \E l \in Listeners : Subscribed(l) /\ l.hotkey # 0 /\ key = to_rdev_key(l.hotkey)

\* C16: a key event that is a release, or a press of a key no listener
\* blocked in listen is bound to, changes nothing at all; and a listener
\* thread comes to run toggle_clicker only by the step that delivers a press
\* of the key it is bound to.
C16_PressOnlyFiltering ==
    [][/\ \A type \in EventTypes, key \in OsKeys :
             (KeyEvent(type, key) /\ (type = "KeyRelease" \/ ~BoundTo(key)))
                => UNCHANGED vars
       /\ \A l \in BagToSet(listeners') :
             (l.pc = "toggle" /\ CopiesIn(l, listeners') > CopiesIn(l, listeners))
                => KeyEvent("KeyPress", to_rdev_key(l.hotkey))]_vars

C16_Witness ==
    \E l, m \in Listeners :
        /\ l.pc = "toggle"
        /\ Subscribed(m)
        /\ m.hotkey \notin {0, l.hotkey}

\* C17: every click is emitted with the warm-up sleep taken since the flag
\* last went from false to true.
C17_WarmupPerActivation ==
    [][(clicker_pc = "click" /\ clicker_pc' = "read_delay") => warmed_up]_vars

\* C18: once a HotkeyChanged(K) has been handled with K already the stored
\* hotkey, a press of K delivered with the UI at rest has changed the flag
\* exactly once, that is flipped it, when every callback has returned.
C18_SetHotkeyIdempotent ==
    (/\ press.key # "none"
     /\ prev_hotkey = selected_hotkey
     /\ press.key = to_rdev_key(prev_hotkey)
     /\ Quiescent)
    => clicking_flag # press.before

\* The UI thread is handling a HotkeyChanged, or main is starting up, and
\* has not yet spawned the listener thread.
SpawnPending == ui_pc \in {"hotkey_lock", "hotkey_write", "spawn"}

\* C19: the number of listener threads spawned is one for the startup plus
\* one for every HotkeyChanged handed to update, less the one that main or
\* update is about to spawn; and the one click loop thread always has a
\* next step.
C19_BoundedListenerLeak ==
    /\ NumListeners = 1 + hotkey_changes - (IF SpawnPending THEN 1 ELSE 0)
    /\ ENABLED ClickerNext

C19_Witness ==
    /\ hotkey_changes = 2
    /\ NumListeners = 3
    /\ UIAtRest
    /\ \E l \in Listeners : Terminated(l)
    /\ last_log = "STOPPED"

\* C20: the program starts with the slider value and the stored delay both
\* 800; they are equal in every state; and either changes only in update's
\* handling of SliderChanged, which sets both to the value received.
C20_DisplayedMatchesStored ==
    /\ (slider_value = DEFAULT_DELAY_MS /\ delay_ms = DEFAULT_DELAY_MS)
    /\ [](slider_value = delay_ms)
    /\ [][(slider_value' # slider_value \/ delay_ms' # delay_ms)
            => /\ ui_pc = "idle"
               /\ message'.type = "SliderChanged"
               /\ slider_value' = message'.arg
               /\ delay_ms' = message'.arg]_vars

C20_Witness ==
    /\ slider_value > SLIDER_MAX
    /\ delay_ms = slider_value
    /\ sleep_time = slider_value
    /\ ui_pc = "idle"

====
